---- MODULE Spec2Model ----
(***************************************************************************)
(* Model of the release-notes library (src/notes/notes.go): one call of    *)
(* ListReleaseNotes against a remote repository host, and the pure text    *)
(* and label functions it is built from.                                   *)
(*                                                                         *)
(* Texts are TLA+ strings, read character by character with Len, SubSeq    *)
(* and \o.  A TLA+ string literal cannot hold the backtick, so in every    *)
(* literal of this module the character ~ stands for the backtick of the   *)
(* source (the fence ``` is written ~~~).                                  *)
(*                                                                         *)
(* Of a ReleaseNote the fields Markdown, AuthorUrl and PrUrl are left out: *)
(* they are formatted from the other fields (and prettifySigList, which    *)
(* is not in notes.go) and nothing in ListReleaseNotes reads them.         *)
(***************************************************************************)
EXTENDS Integers, Sequences, FiniteSets, TLC

(***************************************************************************)
(* Bounds of the model.                                                    *)
(***************************************************************************)
\* commits the remote returns over all pages of one listing
MaxCommits == 2
\* highest last-page number the remote reports
MaxPages == 2
\* options passed to one call
MaxOpts == 2
\* fragments a text handed to NoteTextFromString is assembled from
MaxFrags == 3
\* labels of a pull request handed to ReleaseNoteFromCommit
MaxLabels == 3

(***************************************************************************)
(* Strings.                                                                *)
(***************************************************************************)
At(s, i) == IF 1 <= i /\ i <= Len(s) THEN SubSeq(s, i, i) ELSE ""

\* the text of s from position i to its end
From(s, i) == IF i > Len(s) THEN "" ELSE SubSeq(s, i, Len(s))

\* strings.HasPrefix on the text of s that starts at position i
HasPrefixAt(s, i, lit) ==
    /\ i + Len(lit) - 1 <= Len(s)
    /\ SubSeq(s, i, i + Len(lit) - 1) = lit

HasPrefix(s, prefix) == HasPrefixAt(s, 1, prefix)

TrimPrefix(s, prefix) == IF HasPrefix(s, prefix) THEN From(s, Len(prefix) + 1) ELSE s

Digits == {"0", "1", "2", "3", "4", "5", "6", "7", "8", "9"}

\* the class \s of regexp/syntax: [\t\n\f\r ]
ReSpace == {"\t", "\n", "\f", "\r", " "}

\* the white space strings.TrimSpace cuts (in the ASCII range)
TrimSet == {"\t", "\n", "\f", "\r", " "}

UpperCase == "ABCDEFGHIJKLMNOPQRSTUVWXYZ"
LowerCase == "abcdefghijklmnopqrstuvwxyz"

\* the lower-case letter of every upper-case letter
FoldTable ==
    [c \in {SubSeq(UpperCase, k, k) : k \in 1..26} |->
        LET k == CHOOSE k \in 1..26 : SubSeq(UpperCase, k, k) = c IN SubSeq(LowerCase, k, k)]

\* one character, folded to lower case (the (?i) flag, ASCII letters)
Fold(c) == IF c \in DOMAIN FoldTable THEN FoldTable[c] ELSE c

\* (?i)lit matches s at position i; lit is written in lower case
FoldPrefixAt(s, i, lit) ==
    /\ i + Len(lit) - 1 <= Len(s)
    /\ \A k \in 1..Len(lit) : Fold(SubSeq(s, i + k - 1, i + k - 1)) = SubSeq(lit, k, k)

\* a character class of regexp/syntax: \s, \d, or the dot (any character but \n)
ClassHas(class, c) ==
    /\ c # ""
    /\ CASE class = "space" -> c \in ReSpace
         [] class = "digit" -> c \in Digits
         [] class = "dot" -> c # "\n"

\* the position after the longest run of characters of a class that starts at i
RECURSIVE RunEnd(_, _, _)
RunEnd(s, i, class) == IF ClassHas(class, At(s, i)) THEN RunEnd(s, i + 1, class) ELSE i

\* the least element of a non-empty set of positions
Least(S) == CHOOSE i \in S : \A j \in S : i <= j

\* strings.TrimRight(s, "\r")
RECURSIVE TrimRightCR(_)
TrimRightCR(s) ==
    IF Len(s) > 0 /\ At(s, Len(s)) = "\r" THEN TrimRightCR(SubSeq(s, 1, Len(s) - 1)) ELSE s

\* strings.TrimSpace
RECURSIVE TrimSpace(_)
TrimSpace(s) ==
    IF Len(s) = 0 THEN s
    ELSE IF At(s, 1) \in TrimSet THEN TrimSpace(From(s, 2))
    ELSE IF At(s, Len(s)) \in TrimSet THEN TrimSpace(SubSeq(s, 1, Len(s) - 1))
    ELSE s

\* bufio.Scanner with the default ScanLines: the first line, without its line end
FirstLine(s) ==
    LET nl == {i \in 1..Len(s) : At(s, i) = "\n"}
        line == IF nl = {} THEN s ELSE SubSeq(s, 1, Least(nl) - 1)
    IN IF Len(line) > 0 /\ At(line, Len(line)) = "\r"
       THEN SubSeq(line, 1, Len(line) - 1)
       ELSE line

(***************************************************************************)
(* strconv.Atoi on a run of decimal digits: the value, or a range error    *)
(* when it does not fit the 64-bit int.                                    *)
(***************************************************************************)
MaxInt64Text == "9223372036854775807"

\* the error of strconv.Atoi for a value out of range
ErrRange == "range"

RECURSIVE StripZeros(_)
StripZeros(d) == IF Len(d) > 1 /\ At(d, 1) = "0" THEN StripZeros(From(d, 2)) ELSE d

DigitValue(c) == CHOOSE v \in 0..9 : At("0123456789", v + 1) = c

\* d > e for two digit strings of the same length
RECURSIVE DigitsGreater(_, _)
DigitsGreater(d, e) ==
    IF Len(d) = 0 THEN FALSE
    ELSE IF At(d, 1) # At(e, 1) THEN DigitValue(At(d, 1)) > DigitValue(At(e, 1))
    ELSE DigitsGreater(From(d, 2), From(e, 2))

RECURSIVE DecimalValue(_)
DecimalValue(d) ==
    IF Len(d) = 0 THEN 0
    ELSE 10 * DecimalValue(SubSeq(d, 1, Len(d) - 1)) + DigitValue(At(d, Len(d)))

Atoi(d) ==
    LET t == StripZeros(d)
    IN IF Len(t) > Len(MaxInt64Text)
          \/ (Len(t) = Len(MaxInt64Text) /\ DigitsGreater(t, MaxInt64Text))
       THEN [err |-> ErrRange, value |-> 0]
       ELSE [err |-> "", value |-> DecimalValue(t)]

(***************************************************************************)
(* Regular expressions.  A pattern is a sequence of pieces; Ends(s, i, p)  *)
(* is the set of positions at which a match of p that starts at position i *)
(* of s can end.  The patterns of notes.go match in one way at most from a *)
(* given start, up to the length of their last repetition, which regexp    *)
(* takes as long as it can (greedy): FindMatch takes that end.              *)
(***************************************************************************)
Lit(text) == [op |-> "lit", text |-> text, class |-> "", alts |-> <<>>]
FoldLit(text) == [op |-> "foldlit", text |-> text, class |-> "", alts |-> <<>>]
Opt(text) == [op |-> "opt", text |-> text, class |-> "", alts |-> <<>>]
One(class) == [op |-> "one", text |-> "", class |-> class, alts |-> <<>>]
Plus(class) == [op |-> "plus", text |-> "", class |-> class, alts |-> <<>>]
Star(class) == [op |-> "star", text |-> "", class |-> class, alts |-> <<>>]
AltFold(alts) == [op |-> "altfold", text |-> "", class |-> "", alts |-> alts]

RECURSIVE Ends(_, _, _)
Ends(s, i, p) ==
    IF p = <<>> THEN {i}
    ELSE LET h == p[1]
             rest == Tail(p)
         IN CASE h.op = "lit" ->
                   IF HasPrefixAt(s, i, h.text) THEN Ends(s, i + Len(h.text), rest) ELSE {}
              [] h.op = "foldlit" ->
                   IF FoldPrefixAt(s, i, h.text) THEN Ends(s, i + Len(h.text), rest) ELSE {}
              [] h.op = "opt" ->
                   Ends(s, i, rest) \cup
                   (IF HasPrefixAt(s, i, h.text) THEN Ends(s, i + Len(h.text), rest) ELSE {})
              [] h.op = "one" ->
                   IF ClassHas(h.class, At(s, i)) THEN Ends(s, i + 1, rest) ELSE {}
              [] h.op = "plus" ->
                   UNION {Ends(s, k, rest) : k \in (i + 1)..RunEnd(s, i, h.class)}
              [] h.op = "star" ->
                   UNION {Ends(s, k, rest) : k \in i..RunEnd(s, i, h.class)}
              [] h.op = "altfold" ->
                   UNION {IF FoldPrefixAt(s, i, h.alts[a])
                          THEN Ends(s, i + Len(h.alts[a]), rest)
                          ELSE {} : a \in DOMAIN h.alts}

Greatest(S) == CHOOSE i \in S : \A j \in S : j <= i

\* the literal a pattern begins with ("" when it begins with another piece): a
\* match starts where this literal stands, which is looked for before the rest
Prefix(p) == IF p[1].op = "lit" THEN p[1].text ELSE ""

\* the positions of s at which a match of p starts
MatchStarts(s, p) ==
    LET t == Prefix(p)
        n == Len(t)
    IN {i \in 1..(Len(s) + 1 - n) : SubSeq(s, i, i + n - 1) = t /\ Ends(s, i, p) # {}}

\* regexp.MatchString(p, s)
MatchString(p, s) ==
    LET t == Prefix(p)
        n == Len(t)
    IN \E i \in 1..(Len(s) + 1 - n) : SubSeq(s, i, i + n - 1) = t /\ Ends(s, i, p) # {}

\* the match of p in s that starts at the least of the positions starts
LeftmostOf(s, p, starts) ==
    IF starts = {} THEN [found |-> FALSE, start |-> 0, end |-> 0]
    ELSE [found |-> TRUE, start |-> Least(starts),
          end |-> Greatest(Ends(s, Least(starts), p))]

\* the leftmost match of p in s, as [found, start, end): what FindStringSubmatch locates
FindMatch(s, p) == LeftmostOf(s, p, MatchStarts(s, p))

RECURSIVE ReplaceAllString(_, _)
\* s without its leftmost match m of p and without the matches after it
CutMatch(s, p, m) ==
    IF ~m.found \/ m.end = m.start THEN s
    ELSE SubSeq(s, 1, m.start - 1) \o ReplaceAllString(From(s, m.end), p)

\* Regexp.ReplaceAllString(s, ""): s without its matches of p, taken left to right
ReplaceAllString(s, p) == CutMatch(s, p, FindMatch(s, p))

(***************************************************************************)
(* The remote repository host, as the library sees it through go-github.   *)
(* A commit is [sha, author, message], a pull request [number, body,       *)
(* labels, user], an issue [number, labels].  A getter on a nil pointer    *)
(* gives the zero value: NilPR and NilIssue.                               *)
(***************************************************************************)
NilPR == [number |-> 0, body |-> "", labels |-> <<>>, user |-> ""]
NilIssue == [number |-> 0, labels |-> <<>>]

\* the errors of the library and of the remote
ErrNoPR == "no matches found when parsing PR from commit"
ErrNoIssue == "no matches found when parsing Issues from commit"
ErrNoNote == "no matches found when parsing note text from commit string"
ErrRemote == "remote"

VARIABLES
    opts,             \* the options of the call
    remoteCommits,    \* remote: the commits of the branch, as the listing orders them
    pullRequests,     \* remote: pull request number -> pull request
    issues,           \* remote: issue number -> issue
    pc,               \* where the call stands
    page,             \* ListCommits: clo.ListOptions.Page
    lastPage,         \* ListCommits: resp.LastPage of the first response
    commits,          \* ListCommits: the commits listed so far
    received,         \* remote: the pages of commits it has answered with, in order
    filteredCommits,  \* ListCommitsWithNotes: the commits kept so far
    notes,            \* ListReleaseNotes: the notes kept so far
    dedupeCache,      \* ListReleaseNotes: the texts of the notes kept
    returned,         \* what ListCommits, ListCommitsWithNotes, ListReleaseNotes returned
    idx,              \* the round of the running loop over commits
    calls,            \* every request sent to the remote, in order
    trail,            \* what the loop rounds did with their commits
    input,            \* argument of a function applied on its own
    output            \* its result

vars == <<opts, remoteCommits, pullRequests, issues, pc, page, lastPage, commits, received,
          filteredCommits, notes, dedupeCache, returned, idx, calls, trail, input, output>>

(***************************************************************************)
(* Request configuration.                                                  *)
(***************************************************************************)
WithContext(ctx) == [field |-> "ctx", value |-> ctx]
WithOrg(org) == [field |-> "org", value |-> org]
WithRepo(repo) == [field |-> "repo", value |-> repo]
WithBranch(branch) == [field |-> "branch", value |-> branch]

DefaultConfig == [ctx |-> "Background", org |-> "netdata", repo |-> "netdata", branch |-> "master"]

\* an option that sets a field only while it has its default
ApplyOptOnce(c, opt) ==
    IF c[opt.field] = DefaultConfig[opt.field] THEN [c EXCEPT ![opt.field] = opt.value] ELSE c

\* an option applied to a configuration
ApplyOpt(c, opt) == [c EXCEPT ![opt.field] = opt.value]

RECURSIVE ApplyOpts(_, _)
ApplyOpts(c, os) == IF os = <<>> THEN c ELSE ApplyOpts(ApplyOpt(c, Head(os)), Tail(os))

configFromOpts(os) == ApplyOpts(DefaultConfig, os)

\* a request to the remote under configuration c: the API called, the context,
\* organization and repository passed, and the commit SHA, the branch and page,
\* or the pull request or issue number asked for
Request(c, api, sha, number) ==
    [api |-> api, ctx |-> c.ctx, org |-> c.org, repo |-> c.repo,
     branch |-> IF api = "Repositories.ListCommits" THEN c.branch ELSE "",
     sha |-> sha, number |-> number]

(***************************************************************************)
(* Labels.                                                                 *)
(***************************************************************************)
GetIssueLabels(issue) == issue.labels

GetPRLabels(pr) == pr.labels

RECURSIVE StringsWithPrefix(_, _)
StringsWithPrefix(xs, prefix) ==
    IF xs = <<>> THEN <<>>
    ELSE (IF HasPrefix(Head(xs), prefix) THEN <<TrimPrefix(Head(xs), prefix)>> ELSE <<>>)
         \o StringsWithPrefix(Tail(xs), prefix)

HasString(a, x) == \E k \in DOMAIN a : a[k] = x

IsActionRequired(pr) == \E k \in DOMAIN pr.labels : pr.labels[k] = "release-note-action-required"

(***************************************************************************)
(* Note text from a pull request body or commit message.                   *)
(***************************************************************************)
stripActionRequired(note) ==
    ReplaceAllString(
        ReplaceAllString(note, <<FoldLit("[action required]"), One("space")>>),
        <<FoldLit("action required:"), One("space")>>)

stripStar(note) == ReplaceAllString(note, <<FoldLit("*"), One("space")>>)

\* the four expressions of NoteTextFromString: the text before the group (.+),
\* and the text after it
exps ==
    << [open |-> "~~~release-note\r\n", close |-> ""],
       [open |-> "~~~dev-release-note\r\n", close |-> ""],
       [open |-> "~~~\r\n", close |-> "\r\n~~~"],
       [open |-> "~~~release-note\n", close |-> "\n~~~"] >>

ExpPattern(exp) == <<Lit(exp.open), Plus("dot"), Lit(exp.close)>>

\* the group of the match m of exp in s
Submatch(exp, s, m) ==
    IF ~m.found THEN [found |-> FALSE, note |-> ""]
    ELSE [found |-> TRUE,
          note |-> SubSeq(s, m.start + Len(exp.open), m.end - Len(exp.close) - 1)]

\* exp.FindStringSubmatch(s): whether exp matches, and the text of its group
FindStringSubmatch(exp, s) == Submatch(exp, s, FindMatch(s, ExpPattern(exp)))

\* the note of the match of expression exp, cleaned
CleanNote(note) == stripStar(stripActionRequired(TrimRightCR(note)))

NoteTextFromString(s) ==
    LET hits == {k \in DOMAIN exps : FindStringSubmatch(exps[k], s).found}
    IN IF hits = {} THEN [err |-> ErrNoNote, note |-> ""]
       ELSE [err |-> "", note |-> CleanNote(FindStringSubmatch(exps[Least(hits)], s).note)]

(***************************************************************************)
(* Pull request and issues of a commit.                                    *)
(***************************************************************************)
\* \(#(?P<number>\d+)\)
prExp == <<Lit("(#"), Plus("digit"), Lit(")")>>

CloseIssueKeywords ==
    <<"close", "closes", "closed", "fix", "fixes", "fixed", "resolve", "resolves", "resolved">>

\* (?i)(CloseIssueKeywords) #?(?P<number>\d+)
issueExp == <<AltFold(CloseIssueKeywords), Lit(" "), Opt("#"), Plus("digit")>>

\* the start of the run of digits that ends before position e
RECURSIVE DigitsStart(_, _)
DigitsStart(s, e) == IF ClassHas("digit", At(s, e - 1)) THEN DigitsStart(s, e - 1) ELSE e

\* client.PullRequests.Get: the remote answers (ok) and has the pull request, or not
PullRequestsGet(number, ok) ==
    IF ok /\ number \in DOMAIN pullRequests
    THEN [err |-> "", pr |-> pullRequests[number]]
    ELSE [err |-> ErrRemote, pr |-> NilPR]

\* client.Issues.Get
IssuesGet(number, ok) ==
    IF ok /\ number \in DOMAIN issues
    THEN [err |-> "", issue |-> issues[number]]
    ELSE [err |-> ErrRemote, issue |-> NilIssue]

\* PRFromCommit once exp.FindStringSubmatch has given match
PRFromMatch(commit, os, ok, match) ==
    IF ~match.found THEN [err |-> ErrNoPR, pr |-> NilPR, calls |-> <<>>]
    ELSE LET c == configFromOpts(os)
             number == Atoi(SubSeq(commit.message, match.start + 2, match.end - 2))
             got == PullRequestsGet(number.value, ok)
         IN IF number.err # "" THEN [err |-> number.err, pr |-> NilPR, calls |-> <<>>]
            ELSE [err |-> got.err, pr |-> got.pr,
                  calls |-> <<Request(c, "PullRequests.Get", "", number.value)>>]

PRFromCommit(commit, os, ok) == PRFromMatch(commit, os, ok, FindMatch(commit.message, prExp))

\* IssueNumbersFromCommit once exp.FindAllStringSubmatch has given its first match
IssueNumbersFromMatch(commit, match) ==
    IF ~match.found THEN [err |-> ErrNoIssue, issues |-> <<>>]
    ELSE LET number == Atoi(SubSeq(commit.message,
                                   DigitsStart(commit.message, match.end), match.end - 1))
         IN IF number.err # "" THEN [err |-> number.err, issues |-> <<>>]
            ELSE [err |-> "", issues |-> <<number.value>>]

IssueNumbersFromCommit(commit) ==
    IssueNumbersFromMatch(commit, FindMatch(commit.message, issueExp))

GetIssue(number, os, ok) ==
    LET c == configFromOpts(os)
        got == IssuesGet(number, ok)
    IN [err |-> got.err, issue |-> got.issue,
        calls |-> <<Request(c, "Issues.Get", "", number)>>]

(***************************************************************************)
(* ReleaseNoteFromCommit.                                                  *)
(***************************************************************************)
NilNote ==
    [Commit |-> "", Text |-> "", Author |-> "", PrNumber |-> 0, Areas |-> <<>>,
     Kinds |-> <<>>, SIGs |-> <<>>, Feature |-> FALSE, Duplicate |-> FALSE,
     ActionRequired |-> FALSE]

\* the note text: the first line of the commit message without its (#number) marks
NoteText(commit) == TrimSpace(ReplaceAllString(FirstLine(commit.message), prExp))

\* isFeature with the issue consulted before the labels of the pull request
IsFeatureIssueFirst(pr, hasIssue, issue) ==
    IF hasIssue THEN ~HasString(GetIssueLabels(issue), "bug")
    ELSE HasString(StringsWithPrefix(GetPRLabels(pr), "kind/"), "feature")

\* isFeature; hasIssue says that issue is not nil
IsFeature(pr, hasIssue, issue) ==
    IF HasString(StringsWithPrefix(GetPRLabels(pr), "kind/"), "feature") THEN TRUE
    ELSE IF hasIssue /\ ~HasString(GetIssueLabels(issue), "bug") THEN TRUE
    ELSE FALSE

NoteAreas(pr, hasIssue, issue) ==
    LET areas == StringsWithPrefix(GetPRLabels(pr), "area/")
    IN IF hasIssue /\ Len(areas) = 0
       THEN StringsWithPrefix(GetIssueLabels(issue), "area/")
       ELSE areas

\* IsDuplicate with one SIG label being enough
IsDuplicateOneSig(pr, isFeature) ==
    IF IsActionRequired(pr) \/ isFeature THEN FALSE
    ELSE Len(StringsWithPrefix(GetPRLabels(pr), "sig/")) > 0

IsDuplicate(pr, isFeature) ==
    IF IsActionRequired(pr) \/ isFeature THEN FALSE
    ELSE IF Len(StringsWithPrefix(GetPRLabels(pr), "sig/")) > 1 THEN TRUE
    ELSE FALSE

\* the note of a commit, its pull request and its issue (hasIssue: issue is not nil)
BuildNote(commit, pr, hasIssue, issue) ==
    [Commit |-> commit.sha,
     Text |-> NoteText(commit),
     Author |-> pr.user,
     PrNumber |-> pr.number,
     Areas |-> NoteAreas(pr, hasIssue, issue),
     Kinds |-> StringsWithPrefix(GetPRLabels(pr), "kind/"),
     SIGs |-> StringsWithPrefix(GetPRLabels(pr), "sig/"),
     Feature |-> IsFeature(pr, hasIssue, issue),
     Duplicate |-> IsDuplicate(pr, IsFeature(pr, hasIssue, issue)),
     ActionRequired |-> IsActionRequired(pr)]

\* ReleaseNoteFromCommit once PRFromCommit has given p and IssueNumbersFromCommit n
NoteFromPR(commit, os, issueOk, p, n) ==
    LET hasIssue == n.err = "" /\ Len(n.issues) > 0
        g == IF hasIssue THEN GetIssue(n.issues[1], os, issueOk)
             ELSE [err |-> "", issue |-> NilIssue, calls |-> <<>>]
    IN IF p.err # "" THEN [err |-> p.err, note |-> NilNote, calls |-> p.calls]
       ELSE IF g.err # "" THEN [err |-> g.err, note |-> NilNote, calls |-> p.calls \o g.calls]
       ELSE [err |-> "", note |-> BuildNote(commit, p.pr, hasIssue, g.issue),
             calls |-> p.calls \o g.calls]

\* prOk, issueOk: whether the remote answers the pull request and the issue request
ReleaseNoteFromCommit(commit, os, prOk, issueOk) ==
    NoteFromPR(commit, os, issueOk, PRFromCommit(commit, os, prOk),
               IssueNumbersFromCommit(commit))

(***************************************************************************)
(* The filters of ListCommitsWithNotes.                                    *)
(***************************************************************************)
exclusionFilters ==
    << <<Lit("~~~release-note\r\nNONE")>>,
       <<Lit("~~~release-note\r\n"), Plus("space"), Lit("NONE")>>,
       <<Lit("~~~release-note\r\nNONE")>>,
       <<Lit("~~~release-note\r\n\"NONE\"")>>,
       <<Lit("~~~release-note\r\nNone")>>,
       <<Lit("~~~release-note\r\nnone")>>,
       <<Lit("~~~release-note\r\nN/A")>>,
       <<Lit("~~~release-note\r\n\r\n~~~")>>,
       <<Lit("~~~release-note\r\n~~~")>>,
       <<Lit("/release-note-none")>>,
       <<Lit("\r\n\r\nNONE")>>,
       <<Lit("~~~NONE\r\n~~~")>>,
       <<Lit("~~~release-note \r\nNONE\r\n~~~")>>,
       <<Lit("NONE\r\n~~~")>>,
       <<Lit("\r\nNone")>>,
       <<Lit("\r\nNONE\r\n")>> >>

inclusionFilters ==
    << <<Star("dot")>>,
       <<Lit("release-note")>>,
       <<Lit("Does this PR introduce a user-facing chang"), Opt("e")>> >>

\* the filters of a list that match a body, in the order of the list
Matching(filters, body) == {k \in DOMAIN filters : MatchString(filters[k], body)}

\* excluded: some exclusion filter matches the body
IsExcluded(body) == Matching(exclusionFilters, body) # {}

\* the commit, once for every inclusion filter that matches the body
RECURSIVE Copies(_, _)
Copies(commit, n) == IF n = 0 THEN <<>> ELSE <<commit>> \o Copies(commit, n - 1)

Included(commit, body) == Copies(commit, Cardinality(Matching(inclusionFilters, body)))

\* one round of the loop of ListCommitsWithNotes: what it appends to filteredCommits
FilterPR(commit, p) ==
    IF p.err = ErrNoPR
    THEN [outcome |-> "nopr", err |-> p.err, kept |-> <<>>, calls |-> p.calls]
    ELSE IF IsExcluded(p.pr.body)
    THEN [outcome |-> "excluded", err |-> p.err, kept |-> <<>>, calls |-> p.calls]
    ELSE [outcome |-> "kept", err |-> p.err, kept |-> Included(commit, p.pr.body),
          calls |-> p.calls]

FilterCommit(commit, os, prOk) == FilterPR(commit, PRFromCommit(commit, os, prOk))

(***************************************************************************)
(* One round of the loop of ListReleaseNotes.                              *)
(***************************************************************************)
BotLogin == "netdatabot"

\* IsBot with the login misspelt
IsBotWrongLogin(commit) == commit.author = "netdata-bot"

IsBot(commit) == commit.author = BotLogin

IsNone(note) == TrimSpace(note.Text) = "NONE"

\* InCache keyed on the commit instead of the text
InCacheByCommit(cache, note) == note.Commit \in cache

InCache(cache, note) == note.Text \in cache

\* the round once ReleaseNoteFromCommit has given r (it is not called for a bot commit)
KeepNote(commit, cache, r) ==
    IF IsBot(commit)
    THEN [outcome |-> "bot", err |-> "", note |-> NilNote, add |-> FALSE, calls |-> <<>>]
    ELSE IF r.err # ""
    THEN [outcome |-> "failed", err |-> r.err, note |-> NilNote, add |-> FALSE,
          calls |-> r.calls]
    ELSE IF IsNone(r.note)
    THEN [outcome |-> "none", err |-> "", note |-> r.note, add |-> FALSE, calls |-> r.calls]
    ELSE IF InCache(cache, r.note)
    THEN [outcome |-> "duplicate", err |-> "", note |-> r.note, add |-> FALSE,
          calls |-> r.calls]
    ELSE [outcome |-> "added", err |-> "", note |-> r.note, add |-> TRUE, calls |-> r.calls]

NoteCommit(commit, cache, os, prOk, issueOk) ==
    KeepNote(commit, cache, ReleaseNoteFromCommit(commit, os, prOk, issueOk))

(***************************************************************************)
(* The data of the remote, and the arguments of the call.                  *)
(***************************************************************************)
StartSHA == "start-sha"
EndSHA == "end-sha"

\* the options cmd/release-notes passes
CliOpts == <<WithContext("Background"), WithOrg("netdata"), WithRepo("netdata")>>

PullRequestData ==
    (1 :> [number |-> 1, body |-> "Fixes the widget.",
           labels |-> <<"kind/feature", "sig/ui">>, user |-> "alice"])
    @@ (2 :> [number |-> 2, body |-> "~~~release-note\r\nFix widget\r\n~~~",
              labels |-> <<"sig/a", "sig/b">>, user |-> "bob"])
    @@ (3 :> [number |-> 3, body |-> "~~~release-note\r\nNONE\r\n~~~",
              labels |-> <<>>, user |-> "carol"])

IssueData ==
    (7 :> [number |-> 7, labels |-> <<"bug">>])
    @@ (8 :> [number |-> 8, labels |-> <<"area/core">>])

\* the commits of the branch, in the order the remote lists them
BranchLog ==
    << [sha |-> "c1", author |-> "dave", message |-> "Update docs"],
       [sha |-> "c2", author |-> "alice", message |-> "Fix widget (#1)"],
       [sha |-> "c3", author |-> "bob",
        message |-> "Fix widget (#2)\r\n\r\nfixes #8, closes #7"],
       [sha |-> "c4", author |-> "carol", message |-> "Drop flag (#3)"],
       [sha |-> "c5", author |-> "bob", message |-> "Revert fix\n\nThis reverts (#2)"],
       [sha |-> "c6", author |-> "netdatabot", message |-> "Bump version (#1)"],
       [sha |-> "c7", author |-> "erin",
        message |-> "Trim logs (#1)\n\nCloses #99999999999999999999"] >>

RECURSIVE Reverse(_)
Reverse(seq) == IF seq = <<>> THEN <<>> ELSE Append(Reverse(Tail(seq)), Head(seq))

\* position of a commit in a list of different commits; 0 when it is not there
IndexOf(seq, x) == IF \E k \in DOMAIN seq : seq[k] = x
                   THEN CHOOSE k \in DOMAIN seq : seq[k] = x
                   ELSE 0

\* a page of a listing: the commits of the branch that follow those listed, or,
\* on the first page, those from any commit of the branch on
Pages(listed) ==
    LET froms == IF listed = <<>> THEN 1..(Len(remoteCommits) + 1)
                 ELSE {IndexOf(remoteCommits, listed[Len(listed)]) + 1}
    IN UNION {{SubSeq(remoteCommits, from, from + n - 1) :
                  n \in {m \in 0..(MaxCommits - Len(listed)) :
                            from + m - 1 <= Len(remoteCommits)}} : from \in froms}

(***************************************************************************)
(* ListReleaseNotes, step by step: each action is the code up to and       *)
(* including its next requests to the remote, whose answers are chosen     *)
(* here.                                                                   *)
(***************************************************************************)
Running == [state |-> "running", value |-> <<>>]
Failed == [state |-> "error", value |-> <<>>]
Ok(value) == [state |-> "ok", value |-> value]

\* a failure in ListCommits: all three functions return nil and the error
AllFailed == [ListCommits |-> Failed, ListCommitsWithNotes |-> Failed, ListReleaseNotes |-> Failed]

\* what the trail keeps of a round of a loop: the stage, the position and SHA of
\* the commit, what the round did and the error it met, and the text of its note
Round(stage, at, sha, outcome, err, text) ==
    [stage |-> stage, at |-> at, sha |-> sha, outcome |-> outcome, err |-> err, text |-> text]

\* the failed lookup of a boundary of the range
BoundaryFailed(sha) == Round("boundary", 0, sha, "failed", ErrRemote, "")

\* the failed request of a page of the listing
PageFailed(number) == Round("page", number, "", "failed", ErrRemote, "")

\* the state before the code at position at runs, with the options of the call,
\* the data of the remote and the text handed to NoteTextFromString
InitCall(at, os, branchCommits, prs, iss, text) ==
    /\ opts = os
    /\ remoteCommits = branchCommits
    /\ pullRequests = prs
    /\ issues = iss
    /\ pc = at
    /\ page = 0
    /\ lastPage = 0
    /\ commits = <<>>
    /\ received = <<>>
    /\ filteredCommits = <<>>
    /\ notes = <<>>
    /\ dedupeCache = {}
    /\ returned = [ListCommits |-> Running, ListCommitsWithNotes |-> Running,
                   ListReleaseNotes |-> Running]
    /\ idx = 0
    /\ calls = <<>>
    /\ trail = {}
    /\ input = text
    /\ output = ""

Init ==
    \E log \in {BranchLog, Reverse(BranchLog)} :
        InitCall("start", CliOpts, log, PullRequestData, IssueData, "")

\* ListCommits: client.Git.GetCommit(start)
GetStartCommit ==
    /\ pc = "start"
    /\ calls' = Append(calls, Request(configFromOpts(opts), "Git.GetCommit", StartSHA, 0))
    /\ \E ok \in BOOLEAN :
          IF ok THEN pc' = "end" /\ UNCHANGED <<returned, trail>>
          ELSE /\ pc' = "done"
               /\ returned' = AllFailed
               /\ trail' = trail \cup {BoundaryFailed(StartSHA)}
    /\ UNCHANGED <<opts, remoteCommits, pullRequests, issues, received, page, lastPage, commits,
                   filteredCommits, notes, dedupeCache, idx, input, output>>

\* GetEndCommit with the error of the lookup dropped
GetEndCommitIgnoringError ==
    /\ pc = "end"
    /\ calls' = Append(calls, Request(configFromOpts(opts), "Git.GetCommit", EndSHA, 0))
    /\ \E ok \in BOOLEAN :
          /\ pc' = "first"
          /\ page' = 1
          /\ trail' = IF ok THEN trail ELSE trail \cup {BoundaryFailed(EndSHA)}
    /\ UNCHANGED <<opts, remoteCommits, pullRequests, issues, received, lastPage, commits,
                   filteredCommits, notes, dedupeCache, returned, idx, input, output>>

\* ListCommits: client.Git.GetCommit(end), then the list options with Page 1
GetEndCommit ==
    /\ pc = "end"
    /\ calls' = Append(calls, Request(configFromOpts(opts), "Git.GetCommit", EndSHA, 0))
    /\ \E ok \in BOOLEAN :
          IF ok THEN pc' = "first" /\ page' = 1 /\ UNCHANGED <<returned, trail>>
          ELSE /\ pc' = "done"
               /\ returned' = AllFailed
               /\ trail' = trail \cup {BoundaryFailed(EndSHA)}
               /\ UNCHANGED page
    /\ UNCHANGED <<opts, remoteCommits, pullRequests, issues, received, lastPage, commits,
                   filteredCommits, notes, dedupeCache, idx, input, output>>

\* ListCommits: the first client.Repositories.ListCommits, and Page++
ListFirstPage ==
    /\ pc = "first"
    /\ calls' = Append(calls,
                       Request(configFromOpts(opts), "Repositories.ListCommits", "", page))
    /\ \/ \E commitPage \in Pages(<<>>), last \in 0..MaxPages :
             /\ commits' = commitPage
             /\ received' = Append(received, commitPage)
             /\ lastPage' = last
             /\ page' = page + 1
             /\ pc' = "next"
             /\ UNCHANGED <<returned, trail>>
       \/ /\ pc' = "done"
          /\ returned' = AllFailed
          /\ trail' = trail \cup {PageFailed(page)}
          /\ UNCHANGED <<commits, received, lastPage, page>>
    /\ UNCHANGED <<opts, remoteCommits, pullRequests, issues, filteredCommits, notes,
                   dedupeCache, idx, input, output>>

\* ListNextPage with the page put before the commits listed so far
ListNextPagePrepending ==
    /\ pc = "next"
    /\ page <= lastPage
    /\ calls' = Append(calls,
                       Request(configFromOpts(opts), "Repositories.ListCommits", "", page))
    /\ \/ \E commitPage \in Pages(commits) :
             /\ commits' = commitPage \o commits
             /\ received' = Append(received, commitPage)
             /\ page' = page + 1
             /\ UNCHANGED <<pc, returned, trail>>
       \/ /\ pc' = "done"
          /\ returned' = AllFailed
          /\ trail' = trail \cup {PageFailed(page)}
          /\ UNCHANGED <<commits, received, page>>
    /\ UNCHANGED <<opts, remoteCommits, pullRequests, issues, lastPage, filteredCommits,
                   notes, dedupeCache, idx, input, output>>

\* ListCommits: one round of the loop over the pages that follow
ListNextPage ==
    /\ pc = "next"
    /\ page <= lastPage
    /\ calls' = Append(calls,
                       Request(configFromOpts(opts), "Repositories.ListCommits", "", page))
    /\ \/ \E commitPage \in Pages(commits) :
             /\ commits' = commits \o commitPage
             /\ received' = Append(received, commitPage)
             /\ page' = page + 1
             /\ UNCHANGED <<pc, returned, trail>>
       \/ /\ pc' = "done"
          /\ returned' = AllFailed
          /\ trail' = trail \cup {PageFailed(page)}
          /\ UNCHANGED <<commits, received, page>>
    /\ UNCHANGED <<opts, remoteCommits, pullRequests, issues, lastPage, filteredCommits,
                   notes, dedupeCache, idx, input, output>>

\* ListCommits returns its commits to ListCommitsWithNotes
ListCommitsReturn ==
    /\ pc = "next"
    /\ page > lastPage
    /\ returned' = [returned EXCEPT !.ListCommits = Ok(commits)]
    /\ pc' = "filter"
    /\ idx' = 1
    /\ UNCHANGED <<opts, remoteCommits, pullRequests, issues, received, page, lastPage, commits,
                   filteredCommits, notes, dedupeCache, calls, trail, input, output>>

\* the effect of a round r of the loop of ListCommitsWithNotes
Filtered(commit, r) ==
    /\ filteredCommits' = filteredCommits \o r.kept
    /\ calls' = calls \o r.calls
    /\ trail' = trail \cup {Round("filter", idx, commit.sha, r.outcome, r.err, "")}

\* ListCommitsWithNotes: one round of the loop over the commits
ListCommitsWithNotesRound ==
    /\ pc = "filter"
    /\ idx <= Len(commits)
    /\ \E prOk \in BOOLEAN : Filtered(commits[idx], FilterCommit(commits[idx], opts, prOk))
    /\ idx' = idx + 1
    /\ UNCHANGED <<opts, remoteCommits, pullRequests, issues, received, pc, page, lastPage, commits,
                   notes, dedupeCache, returned, input, output>>

\* ListCommitsWithNotes returns the kept commits to ListReleaseNotes
ListCommitsWithNotesReturn ==
    /\ pc = "filter"
    /\ idx > Len(commits)
    /\ returned' = [returned EXCEPT !.ListCommitsWithNotes = Ok(filteredCommits)]
    /\ pc' = "notes"
    /\ idx' = 1
    /\ UNCHANGED <<opts, remoteCommits, pullRequests, issues, received, page, lastPage, commits,
                   filteredCommits, notes, dedupeCache, calls, trail, input, output>>

\* the effect of a round r of the loop of ListReleaseNotes
Noted(commit, r) ==
    /\ notes' = IF r.add THEN Append(notes, r.note) ELSE notes
    /\ dedupeCache' = IF r.add THEN dedupeCache \cup {r.note.Text} ELSE dedupeCache
    /\ calls' = calls \o r.calls
    /\ trail' = trail \cup {Round("note", idx, commit.sha, r.outcome, r.err, r.note.Text)}

\* ListReleaseNotes: one round of the loop over the kept commits
ListReleaseNotesRound ==
    /\ pc = "notes"
    /\ idx <= Len(filteredCommits)
    /\ \E prOk, issueOk \in BOOLEAN :
          Noted(filteredCommits[idx],
                NoteCommit(filteredCommits[idx], dedupeCache, opts, prOk, issueOk))
    /\ idx' = idx + 1
    /\ UNCHANGED <<opts, remoteCommits, pullRequests, issues, received, pc, page, lastPage, commits,
                   filteredCommits, returned, input, output>>

\* ListReleaseNotes returns the notes
ListReleaseNotesReturn ==
    /\ pc = "notes"
    /\ idx > Len(filteredCommits)
    /\ returned' = [returned EXCEPT !.ListReleaseNotes = Ok(notes)]
    /\ pc' = "done"
    /\ UNCHANGED <<opts, remoteCommits, pullRequests, issues, received, page, lastPage, commits,
                   filteredCommits, notes, dedupeCache, idx, calls, trail, input, output>>

Next ==
    \/ GetStartCommit
    \/ GetEndCommit
    \/ ListFirstPage
    \/ ListNextPage
    \/ ListCommitsReturn
    \/ ListCommitsWithNotesRound
    \/ ListCommitsWithNotesReturn
    \/ ListReleaseNotesRound
    \/ ListReleaseNotesReturn

Spec == Init /\ [][Next]_vars

\* ListCommits runs on: its code blocks on each request for a page and goes on
\* when the remote has answered
SpecFair ==
    Spec /\ WF_vars(ListFirstPage) /\ WF_vars(ListNextPage) /\ WF_vars(ListCommitsReturn)

(***************************************************************************)
(* Properties of a call of ListReleaseNotes.                               *)
(***************************************************************************)
Range(f) == {f[k] : k \in DOMAIN f}

\* the commit of the branch with a SHA
CommitOf(sha) == CHOOSE c \in Range(remoteCommits) : c.sha = sha

\* the rounds of ListReleaseNotes in which a commit produced a note to list
Produced == {t \in trail : t.stage = "note" /\ t.outcome \in {"added", "duplicate"}}

\* the first round, in walked order, that produced a text
FirstProducing(text) ==
    CHOOSE t \in Produced : t.text = text /\ \A u \in Produced : u.text = text => t.at <= u.at

\* C1: no two returned notes have the same Text, every text some walked commit
\* produced is returned once, with the note of the first commit in walked order
\* that produced it, and the notes are in the order of those commits.
C1_DedupByTextKeepsOrder ==
    /\ \A i, j \in DOMAIN notes : notes[i].Text = notes[j].Text => i = j
    /\ {notes[k].Text : k \in DOMAIN notes} = {t.text : t \in Produced}
    /\ \A k \in DOMAIN notes : notes[k].Commit = FirstProducing(notes[k].Text).sha
    /\ \A i, j \in DOMAIN notes :
          i < j => FirstProducing(notes[i].Text).at < FirstProducing(notes[j].Text).at

\* a finished call in which a later commit produced the text of a returned note
\* of another commit, and was dropped
C1_Witness ==
    /\ pc = "done"
    /\ returned.ListReleaseNotes = Ok(notes)
    /\ \E t \in trail, k \in DOMAIN notes :
          /\ t.stage = "note" /\ t.outcome = "duplicate"
          /\ t.text = notes[k].Text /\ t.sha # notes[k].Commit

ExcludedPR(p) == p.err = "" /\ IsExcluded(p.pr.body)

\* the body of the pull request of a commit matches an exclusion pattern
BodyExcluded(commit) == ExcludedPR(PRFromCommit(commit, opts, TRUE))

\* C2: whatever the remote answers, a commit whose pull request body matches an
\* exclusion pattern is not among the commits ListCommitsWithNotes keeps, and no
\* returned note is built from it.
C2_ExcludedNeverListed ==
    /\ \A k \in DOMAIN filteredCommits : ~BodyExcluded(filteredCommits[k])
    /\ \A k \in DOMAIN notes : ~BodyExcluded(CommitOf(notes[k].Commit))

\* C3: once the range is listed, ListReleaseNotes returns without error, and a
\* commit with a round that failed (pull request lookup, issue lookup or
\* extraction) contributes no note.
C3_FailingCommitContributesNothing ==
    /\ (pc = "done" /\ returned.ListCommits.state = "ok")
          => returned.ListReleaseNotes.state = "ok"
    /\ \A t \in trail : t.stage \in {"filter", "note"} /\ t.err # ""
          => \A k \in DOMAIN notes : notes[k].Commit # t.sha

\* C4: after a failed lookup of the start or the end commit all three functions
\* have returned an error with no commits and no notes, and the failed lookup
\* is the last request made: no listing, pull request or issue request follows.
C4_BoundaryFailureIsFatal ==
    \A t \in trail : t.stage = "boundary" =>
        /\ \A f \in DOMAIN returned : returned[f].state = "error" /\ returned[f].value = <<>>
        /\ commits = <<>> /\ filteredCommits = <<>> /\ notes = <<>>
        /\ \A k \in DOMAIN calls : calls[k].api = "Git.GetCommit"
        /\ calls[Len(calls)].sha = t.sha

\* the lookup of the end commit failed after that of the start commit succeeded
C4_Witness ==
    /\ pc = "done"
    /\ \E t \in trail : t.stage = "boundary" /\ t.sha = EndSHA
    /\ Len(calls) = 2

\* C5: no returned note has as its Commit a commit whose author login is
\* netdatabot.
C5_NoNoteFromBot ==
    \A k \in DOMAIN notes : CommitOf(notes[k].Commit).author # "netdatabot"

\* a finished call that walked a commit of netdatabot whose pull request has a
\* body no exclusion pattern matches
C5_Witness ==
    /\ pc = "done"
    /\ returned.ListReleaseNotes = Ok(notes)
    /\ \E k \in DOMAIN filteredCommits :
          /\ filteredCommits[k].author = "netdatabot"
          /\ ~BodyExcluded(filteredCommits[k])
          /\ MatchString(prExp, filteredCommits[k].message)

\* the pages asked for, in the order of the requests
RECURSIVE PagesAsked(_)
PagesAsked(cs) ==
    IF cs = <<>> THEN <<>>
    ELSE (IF Head(cs).api = "Repositories.ListCommits" THEN <<Head(cs).number>> ELSE <<>>)
         \o PagesAsked(Tail(cs))

\* the pages put one after the other
RECURSIVE Flatten(_)
Flatten(ps) == IF ps = <<>> THEN <<>> ELSE Head(ps) \o Flatten(Tail(ps))

\* the pages are asked for in the order 1, 2, ..., each once and none beyond the
\* last page the first response reported; a result of ListCommits is every page
\* 1..L in page order; after a failed page request all is returned as an error
\* with no commits and that request is the last one made
PagesInOrder ==
    /\ \A k \in DOMAIN PagesAsked(calls) : PagesAsked(calls)[k] = k
    /\ Len(received) >= 1 => \A k \in DOMAIN PagesAsked(calls) : k = 1 \/ k <= lastPage
    /\ returned.ListCommits.state = "ok" =>
          /\ Len(received) = Len(PagesAsked(calls))
          /\ Len(received) = IF lastPage > 1 THEN lastPage ELSE 1
          /\ returned.ListCommits.value = Flatten(received)
    /\ \A t \in trail : t.stage = "page" =>
          /\ \A f \in DOMAIN returned : returned[f].state = "error" /\ returned[f].value = <<>>
          /\ calls[Len(calls)].api = "Repositories.ListCommits"
          /\ calls[Len(calls)].number = t.at
          /\ Len(PagesAsked(calls)) = t.at

\* C11: after both boundaries resolve ListCommits asks for page 1 and then the
\* pages 2..L in increasing order, each once, L being the last page the first
\* response reports; on success its result is the pages in page order; a failed
\* page request returns an error with no commits and is the last request; and
\* the loop over the pages always ends.
C11_Pagination ==
    /\ []PagesInOrder
    /\ (pc = "first") ~> (returned.ListCommits.state # "running")

\* ListCommits has returned two pages that both hold a commit
C11_Witness ==
    /\ returned.ListCommits.state = "ok"
    /\ Len(received) = 2
    /\ received[1] # <<>> /\ received[2] # <<>>
    /\ returned.ListCommits.value = received[1] \o received[2]

\* the times x stands in a list
Count(seq, x) == Cardinality({k \in DOMAIN seq : seq[k] = x})

\* a is b with some of its elements left out
RECURSIVE IsSubList(_, _)
IsSubList(a, b) ==
    IF a = <<>> THEN TRUE
    ELSE IF b = <<>> THEN FALSE
    ELSE IF Head(a) = Head(b) THEN IsSubList(Tail(a), Tail(b))
    ELSE IsSubList(a, Tail(b))

\* a commit has a pull request number, and the body of the pull request matches
\* no exclusion pattern
Retained(commit) == MatchString(prExp, commit.message) /\ ~BodyExcluded(commit)

\* C13: the commits ListCommitsWithNotes has kept are a sub-list of the commits
\* ListCommits returned, in the same order, and in its result a retained commit
\* stands as many times as it stands in the walked list, never more.
C13_OnlyNarrows ==
    /\ IsSubList(filteredCommits, commits)
    /\ returned.ListCommitsWithNotes.state = "ok" =>
          \A k \in DOMAIN commits :
              Retained(commits[k]) =>
                  Count(returned.ListCommitsWithNotes.value, commits[k])
                      = Count(commits, commits[k])

\* the numbers of the pull requests asked for
Fetched == {calls[k].number : k \in {j \in DOMAIN calls : calls[j].api = "PullRequests.Get"}}

\* the number a (#digits) trailer at position i of a line gives
TrailerNumber(line, i) == Atoi(SubSeq(line, i + 2, Greatest(Ends(line, i, prExp)) - 2)).value

\* C8: a commit whose first message line has no (#digits) trailer fails with the
\* no-match error and is skipped by ListCommitsWithNotes, and for a commit whose
\* first line has exactly one trailer the pull request with that number is
\* fetched.
C8_PRFromFirstLine ==
    \A t \in trail : t.stage = "filter" =>
        /\ MatchStarts(FirstLine(CommitOf(t.sha).message), prExp) = {}
              => t.outcome = "nopr" /\ t.err = ErrNoPR
        /\ \A i \in MatchStarts(FirstLine(CommitOf(t.sha).message), prExp) :
              Cardinality(MatchStarts(FirstLine(CommitOf(t.sha).message), prExp)) = 1
                 => TrailerNumber(FirstLine(CommitOf(t.sha).message), i) \in Fetched


(***************************************************************************)
(* ReleaseNoteFromCommit on its own: one commit, its pull request with any *)
(* list of labels, and the issue it names with any of a few.               *)
(***************************************************************************)
LabelPool ==
    {"kind/feature", "kind/bug", "sig/a", "sig/b", "release-note-action-required", "area/ui"}

LabelLists == UNION {[1..n -> LabelPool] : n \in 0..MaxLabels}

IssueLabelLists == {<<"bug">>, <<"area/core">>, <<"area/core", "bug">>}

\* a commit with no pull request, one with a pull request, one that also names
\* issues, and one whose issue number is out of range
NoteCommits == {BranchLog[1], BranchLog[2], BranchLog[3], BranchLog[7]}

Relabel(data, labels) == [n \in DOMAIN data |-> [data[n] EXCEPT !.labels = labels]]

InitNote ==
    \E commit \in NoteCommits, labels \in LabelLists, issueLabels \in IssueLabelLists :
        InitCall("note", CliOpts, <<commit>>, Relabel(PullRequestData, labels),
                 Relabel(IssueData, issueLabels), "")

\* how the remote answers the requests to an API during the call
Answer(api, ok) ==
    Round("answer", 0, api, IF ok THEN "ok" ELSE "failed", IF ok THEN "" ELSE ErrRemote, "")

\* the call has returned r
NoteReturned(r) ==
    /\ output' = r
    /\ calls' = calls \o r.calls
    /\ pc' = "noted"
    /\ UNCHANGED <<opts, remoteCommits, pullRequests, issues, received, page, lastPage, commits,
                   filteredCommits, notes, dedupeCache, returned, idx, input>>

ApplyReleaseNoteFromCommit ==
    /\ pc = "note"
    /\ \E prOk, issueOk \in BOOLEAN :
          /\ NoteReturned(ReleaseNoteFromCommit(remoteCommits[1], opts, prOk, issueOk))
          /\ trail' = {Answer("PullRequests.Get", prOk), Answer("Issues.Get", issueOk)}

NextNote == ApplyReleaseNoteFromCommit

SpecNote == InitNote /\ [][NextNote]_vars

\* the labels of the pull request of the note returned
NotePRLabels == Range(pullRequests[output.note.PrNumber].labels)

\* the issues resolved for the commit: those fetched before the note was returned
ResolvedIssues == {calls[k].number : k \in {j \in DOMAIN calls : calls[j].api = "Issues.Get"}}

\* C6: Feature of a note is true if the pull request carries kind/feature,
\* otherwise true exactly when an issue was resolved for the commit and it does
\* not carry bug, otherwise false.
C6_Feature ==
    (pc = "noted" /\ output.err = "") =>
        output.note.Feature =
            IF "kind/feature" \in NotePRLabels THEN TRUE
            ELSE \E n \in ResolvedIssues : "bug" \notin Range(issues[n].labels)

\* a note with Feature true for a pull request labelled kind/feature whose
\* resolved issue is labelled bug
C6_Witness ==
    /\ pc = "noted" /\ output.err = ""
    /\ output.note.Feature
    /\ "kind/feature" \in NotePRLabels
    /\ \E n \in ResolvedIssues : "bug" \in Range(issues[n].labels)

\* the sig/ labels of the pull request of the note returned, by position
NoteSigLabels ==
    {k \in DOMAIN pullRequests[output.note.PrNumber].labels :
        HasPrefix(pullRequests[output.note.PrNumber].labels[k], "sig/")}

\* C7: Duplicate of a note is true if and only if ActionRequired is false,
\* Feature is false and the pull request carries more than one sig/ label.
C7_Duplicate ==
    (pc = "noted" /\ output.err = "") =>
        output.note.Duplicate =
            (/\ ~output.note.ActionRequired
             /\ ~output.note.Feature
             /\ Cardinality(NoteSigLabels) > 1)

\* a note with Duplicate true
C7_Witness ==
    /\ pc = "noted" /\ output.err = ""
    /\ output.note.Duplicate
    /\ Cardinality(NoteSigLabels) = 2

\* the remote answers the requests to an API
Answered(api) == \E t \in trail : t.stage = "answer" /\ t.sha = api /\ t.outcome = "ok"

\* the numbers of the issues asked for, in the order of the requests
RECURSIVE IssuesAsked(_)
IssuesAsked(cs) ==
    IF cs = <<>> THEN <<>>
    ELSE (IF Head(cs).api = "Issues.Get" THEN <<Head(cs).number>> ELSE <<>>)
         \o IssuesAsked(Tail(cs))

\* the digits of the issue reference that is matched at m
ReferenceDigits(message, m) == SubSeq(message, DigitsStart(message, m.end), m.end - 1)

\* the digits of the first issue reference of a message
FirstReference(message) == ReferenceDigits(message, FindMatch(message, issueExp))

\* the note is built from the pull request alone
FromPRAlone(note, pr) ==
    /\ note.Feature = ("kind/feature" \in Range(pr.labels))
    /\ note.Areas = StringsWithPrefix(pr.labels, "area/")

\* what C12 says of a call for a commit with the message, given whether it has a
\* pull request that the remote answers with
ToleratesOnlyNoReference(message, prFound) ==
    /\ ~prFound => output.err # "" /\ output.note = NilNote
    /\ (prFound /\ ~MatchString(issueExp, message)) =>
          /\ output.err = ""
          /\ IssuesAsked(calls) = <<>>
          /\ FromPRAlone(output.note, pullRequests[output.note.PrNumber])
    /\ (prFound /\ MatchString(issueExp, message)) =>
          /\ Len(IssuesAsked(calls)) = 1
          /\ Atoi(FirstReference(message)).err = ""
          /\ IssuesAsked(calls)[1] = Atoi(FirstReference(message)).value
          /\ Answered("Issues.Get") => output.err = ""
          /\ ~Answered("Issues.Get") => output.err # "" /\ output.note = NilNote

\* C12: a commit message with no issue reference gives a note built from the
\* pull request alone, with no issue request; with one or more references
\* exactly the first referenced issue is fetched; and a failure of that fetch or
\* of the pull request lookup gives an error and no note.
C12_OnlyNoReferenceTolerated ==
    pc = "noted" =>
        ToleratesOnlyNoReference(
            remoteCommits[1].message,
            MatchString(prExp, remoteCommits[1].message) /\ Answered("PullRequests.Get"))

(***************************************************************************)
(* NoteTextFromString on its own, on texts assembled from fences, markers  *)
(* and words.                                                              *)
(***************************************************************************)
Fragments ==
    {"~~~release-note\r\n", "~~~dev-release-note\r\n", "~~~\r\n", "~~~release-note\n",
     "\r\n~~~", "\n~~~", "Fix a * b", "[Action Required] ", "action required: ", "* ", "\r"}

RECURSIVE Concat(_)
Concat(fs) == IF fs = <<>> THEN "" ELSE Head(fs) \o Concat(Tail(fs))

NoteInputs == {Concat(fs) : fs \in UNION {[1..n -> Fragments] : n \in 0..MaxFrags}}

InitNoteText ==
    \E text \in NoteInputs :
        InitCall("text", CliOpts, <<>>, PullRequestData, IssueData, text)

ApplyNoteTextFromString ==
    /\ pc = "text"
    /\ output' = NoteTextFromString(input)
    /\ pc' = "texted"
    /\ UNCHANGED <<opts, remoteCommits, pullRequests, issues, received, page, lastPage, commits,
                   filteredCommits, notes, dedupeCache, returned, idx, calls, trail, input>>

NextNoteText == ApplyNoteTextFromString

SpecNoteText == InitNoteText /\ [][NextNoteText]_vars

\* the fence variants that match a text, by their place in the order
Variants(s) == {k \in DOMAIN exps : FindStringSubmatch(exps[k], s).found}

\* a text without its trailing carriage return
WithoutTrailingCR(s) == IF At(s, Len(s)) = "\r" THEN SubSeq(s, 1, Len(s) - 1) ELSE s

\* a text without a marker and the white space after it at its start
WithoutLeading(s, marker) ==
    IF FoldPrefixAt(s, 1, marker) /\ ClassHas("space", At(s, Len(marker) + 1))
    THEN From(s, Len(marker) + 2)
    ELSE s

\* what the claim expects of the inner line of a stanza
Stripped(line) ==
    WithoutLeading(
        WithoutLeading(WithoutLeading(WithoutTrailingCR(line), "[action required]"),
                       "action required:"),
        "*")

\* C9: for a text that no fence variant matches NoteTextFromString fails with the
\* no-match error; otherwise it returns the inner line of the first variant, in
\* the fixed order, that matches, without its trailing carriage return, its
\* leading action-required marker and its leading "* ", and with nothing else
\* removed.
C9_NoteTextFromString ==
    pc = "texted" =>
        IF Variants(input) = {} THEN output = [err |-> ErrNoNote, note |-> ""]
        ELSE output = [err |-> "",
                       note |-> Stripped(FindStringSubmatch(exps[Least(Variants(input))],
                                                            input).note)]

(***************************************************************************)
(* ListReleaseNotes under every short list of options.                     *)
(***************************************************************************)
OptionPool ==
    {WithContext("Deadline"), WithOrg("acme"), WithOrg("other"), WithRepo("tools"),
     WithBranch("stable")}

OptLists == UNION {[1..n -> OptionPool] : n \in 0..MaxOpts}

\* a branch of two commits, one with a pull request and issues
ConfigLog == <<BranchLog[3], BranchLog[1]>>

InitConfig ==
    \E os \in OptLists : InitCall("start", os, ConfigLog, PullRequestData, IssueData, "")

SpecConfig == InitConfig /\ [][Next]_vars

\* the value the last option for a field gives, or else its default
Setting(os, field, default) ==
    IF \E k \in DOMAIN os : os[k].field = field
    THEN os[Greatest({k \in DOMAIN os : os[k].field = field})].value
    ELSE default

\* C10: the configuration is the defaults (background context, netdata, netdata,
\* master) with, for every field, the value of the last option given for it,
\* and every request of the call is made with its context, organization and
\* repository, and every listing with its branch.
C10_OneConfiguration ==
    /\ configFromOpts(opts) =
          [ctx |-> Setting(opts, "ctx", "Background"), org |-> Setting(opts, "org", "netdata"),
           repo |-> Setting(opts, "repo", "netdata"),
           branch |-> Setting(opts, "branch", "master")]
    /\ \A k \in DOMAIN calls :
          /\ calls[k].ctx = Setting(opts, "ctx", "Background")
          /\ calls[k].org = Setting(opts, "org", "netdata")
          /\ calls[k].repo = Setting(opts, "repo", "netdata")
          /\ calls[k].api = "Repositories.ListCommits"
                => calls[k].branch = Setting(opts, "branch", "master")

\* a finished call given two options for the organization, which listed
\* commits and fetched a pull request and an issue
C10_Witness ==
    /\ pc = "done"
    /\ returned.ListReleaseNotes.state = "ok"
    /\ Len(opts) = 2 /\ opts[1].field = "org" /\ opts[2].field = "org"
    /\ opts[1].value # opts[2].value
    /\ {"Git.GetCommit", "Repositories.ListCommits", "PullRequests.Get", "Issues.Get"}
          \subseteq {calls[k].api : k \in DOMAIN calls}

====
